---- MODULE Spec2Model ----
(***************************************************************************)
(* A model of the pipeline of pigeon-evals and of its stages.              *)
(*                                                                         *)
(* Several state machines share this module:                               *)
(*   SpecFaiss  one FAISSVectorDB instance and the calls made on it        *)
(*              (src/src/infra/storage/vector/faiss.py);                   *)
(*   SpecStore  one run of the storage stage, in its two generations       *)
(*              (src/src/runner/storage_runner.py and                      *)
(*              src/evals/src/runner/storage_runner.py);                   *)
(*   SpecEmbed  one run of the embedding stage, in its two generations     *)
(*              (src/src/runner/embedder_runner.py and                     *)
(*              src/evals/src/runner/embedder_runner.py);                  *)
(*   SpecReducer  the reducers working on one artifact path                *)
(*              (src/src/infra/embedding/dimensional_reduction/            *)
(*              pca_reducer.py and src/mcp_server/clients/pca.py);         *)
(*   SpecOpenAI  the embedding requests made on one OpenAIEmbedder         *)
(*              (src/src/infra/embedding/openai_embedder.py);              *)
(*   SpecParser  one TextSplitterBuilder processing one document           *)
(*              (src/src/parser/builder.py);                               *)
(*   SpecMain   one run of the pipeline (src/src/main.py);                 *)
(*   SpecAgent  one agent test                                             *)
(*              (src/src/runner/evaluation_runner.py);                     *)
(*   SpecTokens  one call of OpenAIEmbedder._chunk_by_tokens, loop         *)
(*              iteration by loop iteration, and SpecTokensFair, the same  *)
(*              with the call always taking its next step.                 *)
(***************************************************************************)
EXTENDS Integers, Sequences, FiniteSets, TLC

VARIABLES
    \* --- one FAISSVectorDB instance (SpecFaiss) ---
    vector_storage,   \* the FAISSVectorDB instance: config, dimension, index, metadata
    disk,             \* what _save_index last wrote to index_path / metadata_path
    ret,              \* outcome of the last call made on the vector store
    deleted_ids,      \* history: positions named by delete calls that have returned
    \* --- one run of a stage (SpecStore, SpecEmbed) ---
    variant,          \* which generation of the code runs: "src" or "evals"
    chunks,           \* the stage's input: List[DocumentChunk]
    pc,               \* where the run is
    \* --- the storage stage (SpecStore) ---
    storage_config,   \* the storage section of the configuration
    pos,              \* position of the loop that is running (from 1)
    runner,           \* the StorageRunner's clients
    sqlite,           \* ids of the rows of the documents table
    pinecone,         \* ids of the vectors of the remote Pinecone index
    results,          \* what the run hands back
    writes,           \* history: the calls the run made on its stores, in order
    \* --- the embedding stage (SpecEmbed) ---
    embedding_config, \* use_threading, max_workers, dimension_reduction
    tasks,            \* chunk_batches: one batch per concurrent task
    batch_results,    \* result of each task, by task position
    completed,        \* history: task positions in the order the tasks finished
    reducer_log,      \* history: the fit and save calls made on reducers
    embedded_chunks,  \* the list the stage returns
    artifact,         \* the file at the reducer's path
    artifact_at_start,\* history: the file at the reducer's path when the run began
    \* --- the reducers working on one artifact path (SpecReducer) ---
    reducers,         \* the reducer objects, by class: target_dim, model, is_fitted
    dry_run,          \* whether dry run mode is enabled
    saving,           \* the reducers whose joblib.dump is under way
    reducer_ret,      \* outcome of the last call made on a reducer
    \* --- one OpenAIEmbedder (SpecOpenAI) ---
    cache,            \* the texts the embedding cache holds a vector for
    embedded_texts,   \* history: the texts a request has returned a vector for
    request,          \* the embedding request under way, or the last one
    api_calls,        \* history: outcomes of the API calls of that request
    \* --- one TextSplitterBuilder and one document (SpecParser) ---
    parser_config,    \* the parser section: processes, each a list of steps
    document,         \* the Document handed to process
    document_chunks,  \* the texts of the chunks process returned
    parser_pc,        \* "ready" before process is called, "done" after
    \* --- one run of main (SpecMain) ---
    run_config,       \* which sections the configuration has, and --dry-run
    dataset,          \* the dataset path: whether it exists, the texts of its files
    main_locals,      \* the local variables of main that are bound, by name
    main_pc,          \* where main is
    stages,           \* history: the stages that ran, in order
    effects,          \* history: the external calls the run made, in order
    exit_code,        \* what main returned ({} while it runs)
    \* --- one agent test (SpecAgent) ---
    agent_test,       \* the AgentTest: mcp type, timeout, max_turns
    agent_run,        \* history: what the agent library did when it was run
    test_result,      \* what _agent_test returned ({} before it has)
    agent_pc,         \* "ready" before _agent_test is called, "done" after
    \* --- one call of _chunk_by_tokens (SpecTokens) ---
    token_call,       \* the arguments: number of token ids of the text, max_tokens, overlap
    chunk_start,      \* the local variable start
    windows,          \* the ids[start:end] windows appended to chunks so far
    chunks_parity,    \* len(chunks) modulo 2
    token_pc          \* "call", "loop" or "returned"

faissVars == <<vector_storage, disk, ret, deleted_ids>>

runVars == <<variant, chunks, pc>>

storeVars == <<storage_config, pos, runner, sqlite, pinecone, results, writes>>

embedVars == <<embedding_config, tasks, batch_results, completed, reducer_log,
               embedded_chunks, artifact, artifact_at_start>>

reducerVars == <<reducers, dry_run, saving, reducer_ret>>

openaiVars == <<cache, embedded_texts, request, api_calls>>

parserVars == <<parser_config, document, document_chunks, parser_pc>>

earlierVars == <<faissVars, runVars, storeVars, embedVars, reducerVars, openaiVars>>

mainVars == <<run_config, dataset, main_locals, main_pc, stages, effects, exit_code>>

agentVars == <<agent_test, agent_run, test_result, agent_pc>>

tokenVars == <<token_call, chunk_start, windows, chunks_parity, token_pc>>

laterVars == <<parserVars, mainVars, agentVars, tokenVars>>

vars == <<earlierVars, laterVars>>

(***************************************************************************)
(* Bounds of the model.                                                    *)
(***************************************************************************)
MaxVectors == 2     \* entries one index may hold
MaxTopK == 2        \* largest top_k a query asks for
MaxTargetDim == 2   \* largest target dimension of a reducer

(***************************************************************************)
(* Inputs.                                                                 *)
(***************************************************************************)
Dimensions == {1, 2}
NoEmbedding == <<>>                      \* chunk.embedding is None (or [])
Embeddings == {NoEmbedding, <<2>>, <<1, 0>>, <<0, 1>>}
ChunkIds == {"c1", "c2"}
Texts == {"t1"}
ChunkInputs == [id : ChunkIds, text : Texts, embedding : Embeddings]

\* Strings are sequences of characters, so that int() and str() are computed.
DigitChars == <<"0", "1", "2", "3", "4", "5", "6", "7", "8", "9">>
IdStrings == {<<"0">>, <<"1">>, <<"c", "1">>}
QueryVectors == {<<1>>, <<2, 1>>, <<1, 2>>}
NoFilter == <<>>                         \* filter is None (or {})
Filters == {NoFilter, "chunk_id" :> "c1"}

(***************************************************************************)
(* Python helpers.                                                         *)
(***************************************************************************)
len(m) == Cardinality(DOMAIN m)

IsDigit(c) == \E i \in 1..Len(DigitChars) : DigitChars[i] = c

DigitValue(c) == (CHOOSE i \in 1..Len(DigitChars) : DigitChars[i] = c) - 1

RECURSIVE DecimalValue(_)
DecimalValue(s) ==
    IF s = <<>> THEN 0
    ELSE 10 * DecimalValue(SubSeq(s, 1, Len(s) - 1)) + DigitValue(s[Len(s)])

\* int(vector_id): the value of a string of decimal digits, ValueError otherwise.
int(s) ==
    IF s # <<>> /\ \A i \in 1..Len(s) : IsDigit(s[i])
    THEN [raised |-> FALSE, value |-> DecimalValue(s)]
    ELSE [raised |-> TRUE, value |-> -1]

RECURSIVE str(_)
\* str(idx) of a non-negative integer.
str(n) ==
    IF n < 10 THEN <<DigitChars[n + 1]>>
    ELSE str(n \div 10) \o <<DigitChars[(n % 10) + 1]>>

RECURSIVE Dot(_, _)
Dot(a, b) ==
    IF a = <<>> THEN 0 ELSE Head(a) * Head(b) + Dot(Tail(a), Tail(b))

\* dict.get(key) on a metadata record, as an option: {} when the key is absent.
get(md, key) == IF key \in DOMAIN md THEN {md[key]} ELSE {}

(***************************************************************************)
(* FAISSVectorDB.                                                          *)
(***************************************************************************)
\* faiss.IndexFlatIP(d): an empty inner-product index of dimension d.
IndexFlatIP(d) == [d |-> d, vectors |-> <<>>]

\* _save_index: the index and the metadata as written to disk.
_save_index(self) == [index |-> self.index, metadata |-> self.metadata]

\* __init__ with no index file at index_path: a new index, saved at once.
FAISSVectorDB(dimension) ==
    [config |-> [dimension |-> dimension],
     dimension |-> dimension,
     index |-> IndexFlatIP(dimension),
     metadata |-> <<>>]

\* __init__ / _initialize_index with an index file present: index and metadata
\* are loaded; self.dimension is the configured one whatever the file holds.
_initialize_index(config, saved) ==
    [config |-> config,
     dimension |-> config.dimension,
     index |-> saved.index,
     metadata |-> saved.metadata]

\* An upload that keeps the metadata when it recreates the index.
upload_keeping_metadata(self, chunk) ==
    IF chunk.embedding = NoEmbedding
    THEN [self |-> self, kind |-> "raise", vector_id |-> -1, recreated |-> FALSE]
    ELSE
      LET actual_dimension == Len(chunk.embedding)
          recreated == actual_dimension # self.dimension
          s1 == IF recreated
                THEN [self EXCEPT !.dimension = actual_dimension,
                                  !.index = IndexFlatIP(actual_dimension)]
                ELSE self
      IN IF actual_dimension # s1.index.d
         THEN [self |-> s1, kind |-> "raise", vector_id |-> -1,
               recreated |-> recreated]
         ELSE
           LET vector_id == len(s1.metadata)
               s2 == [s1 EXCEPT
                        !.index.vectors = Append(@, chunk.embedding),
                        !.metadata = (vector_id :> [chunk_id |-> chunk.id,
                                                    text |-> chunk.text]) @@ @]
           IN [self |-> s2, kind |-> "ok", vector_id |-> vector_id,
               recreated |-> recreated]

\* upload(chunk).  The stored vector is the L2-normalised embedding; the model
\* keeps the direction (the embedding itself) and normalises when scoring.
upload(self, chunk) ==
    IF chunk.embedding = NoEmbedding
    THEN [self |-> self, kind |-> "raise", vector_id |-> -1, recreated |-> FALSE]
    ELSE
      LET actual_dimension == Len(chunk.embedding)
          recreated == actual_dimension # self.dimension
          s1 == IF recreated
                THEN [self EXCEPT !.dimension = actual_dimension,
                                  !.index = IndexFlatIP(actual_dimension),
                                  !.metadata = <<>>]
                ELSE self
      IN IF actual_dimension # s1.index.d
         THEN \* index.add rejects a vector of another dimension
              [self |-> s1, kind |-> "raise", vector_id |-> -1,
               recreated |-> recreated]
         ELSE
           LET vector_id == len(s1.metadata)
               s2 == [s1 EXCEPT
                        !.index.vectors = Append(@, chunk.embedding),
                        !.metadata = (vector_id :> [chunk_id |-> chunk.id,
                                                    text |-> chunk.text]) @@ @]
           IN [self |-> s2, kind |-> "ok", vector_id |-> vector_id,
               recreated |-> recreated]

\* retrieve_from_id(vector_id): the metadata as an option ({} is None).
retrieve_from_id(self, vector_id) ==
    LET vector_id_int == int(vector_id)
    IN IF vector_id_int.raised
       THEN [kind |-> "raise", value |-> {}]
       ELSE IF vector_id_int.value \in DOMAIN self.metadata
            THEN [kind |-> "ok", value |-> {self.metadata[vector_id_int.value]}]
            ELSE [kind |-> "ok", value |-> {}]

\* Whether unit(a) . unit(q) > unit(b) . unit(q), computed on integers.
HigherScore(q, a, b) ==
    LET da == Dot(q, a)
        db == Dot(q, b)
        na == IF Dot(a, a) = 0 THEN 1 ELSE Dot(a, a)
        nb == IF Dot(b, b) = 0 THEN 1 ELSE Dot(b, b)
    IN IF da >= 0 /\ db < 0 THEN TRUE
       ELSE IF da < 0 /\ db >= 0 THEN FALSE
       ELSE IF da >= 0 THEN da * da * nb > db * db * na
       ELSE da * da * nb < db * db * na

\* index.search(query_vector, top_k): the positions (from 0) of the top_k
\* highest inner products, best first, equal scores by position, padded
\* with -1 when the index holds fewer than top_k vectors.
search(index, q, top_k) ==
    LET n == Len(index.vectors)
        Before(i, j) == \/ HigherScore(q, index.vectors[i], index.vectors[j])
                        \/ /\ ~HigherScore(q, index.vectors[j], index.vectors[i])
                           /\ i < j
        Rank(j) == Cardinality({i \in 1..n : Before(i, j)})
    IN [r \in 1..top_k |->
          IF r <= n THEN (CHOOSE j \in 1..n : Rank(j) = r - 1) - 1 ELSE -1]

\* Whether the filter loop of query keeps the hit at position idx.
should_include(self, idx, filter) ==
    LET metadata == IF idx \in DOMAIN self.metadata
                    THEN self.metadata[idx] ELSE <<>>
    IN \A key \in DOMAIN filter : get(metadata, key) = {filter[key]}

\* query(vector, top_k, include_metadata, filter): the results, in order.
\* A result's score (a float) is left out; its place in the list stands for it.
query(self, vector, top_k, include_metadata, filter) ==
    IF Len(vector) # self.index.d
    THEN [kind |-> "raise", results |-> <<>>]
    ELSE
      LET indices == search(self.index, vector, top_k)
          kept == SelectSeq(indices,
                    LAMBDA idx : idx # -1 /\ should_include(self, idx, filter))
      IN [kind |-> "ok",
          results |-> [i \in 1..Len(kept) |->
                         [id |-> str(kept[i]),
                          metadata |-> IF include_metadata
                                          /\ kept[i] \in DOMAIN self.metadata
                                       THEN {self.metadata[kept[i]]} ELSE {}]]]

RECURSIVE delete_loop(_, _, _)
delete_loop(metadata, ids, deleted_count) ==
    IF ids = <<>>
    THEN [metadata |-> metadata, kind |-> "ok", deleted_count |-> deleted_count]
    ELSE LET vector_id_int == int(Head(ids))
         IN IF vector_id_int.raised
            THEN [metadata |-> metadata, kind |-> "raise",
                  deleted_count |-> deleted_count]
            ELSE IF vector_id_int.value \in DOMAIN metadata
                 THEN delete_loop(
                        [metadata EXCEPT ![vector_id_int.value] =
                                            ("deleted" :> TRUE) @@ @],
                        Tail(ids), deleted_count + 1)
                 ELSE delete_loop(metadata, Tail(ids), deleted_count)

\* delete(ids): marks the named entries; an id that is no integer raises after
\* the ids before it were marked in memory, and nothing is saved.
delete(self, ids) ==
    LET r == delete_loop(self.metadata, ids, 0)
    IN [self |-> [self EXCEPT !.metadata = r.metadata],
        kind |-> r.kind, deleted_count |-> r.deleted_count]

\* clear(): a new empty index at the current dimension.
clear(self) ==
    [self EXCEPT !.index = IndexFlatIP(self.dimension), !.metadata = <<>>]


(***************************************************************************)
(* Runs of a stage: inputs shared by the storage and the embedding stage.  *)
(***************************************************************************)
MaxChunks == 3      \* chunks handed to one run of a stage
MaxWorkers == 3     \* largest max_workers of the embedding configuration

Variants == {"src", "evals"}

\* DocumentChunk.id is a fresh uuid4 hex: the k-th chunk of a run has its own id.
ChunkIdAt == <<"c1", "c2", "c3", "c4">>

(***************************************************************************)
(* The storage stage.                                                      *)
(***************************************************************************)
StoreEmbedding == <<1, 0>>
StoreEmbeddings == {NoEmbedding, StoreEmbedding}
StoreDimension == Len(StoreEmbedding)

StoreChunkLists ==
    UNION {{[k \in 1..n |-> [id |-> ChunkIdAt[k], text |-> "t1",
                             embedding |-> e[k]]] :
              e \in [1..n -> StoreEmbeddings]} : n \in 0..MaxChunks}

\* The storage section: text_store and vector may be absent (FALSE); the
\* upload and clear flags default to False.
StorageConfigs ==
    {c \in [text_store : BOOLEAN, text_upload : BOOLEAN, vector : BOOLEAN,
            upload : BOOLEAN, clear : BOOLEAN] :
       /\ c.text_upload => c.text_store
       /\ (c.upload \/ c.clear) => c.vector}

\* What an earlier run left in the vector index.
OldChunk == [id |-> "c0", text |-> "t1", embedding |-> <<0, 1>>]
OldIndex == _save_index(upload(FAISSVectorDB(StoreDimension), OldChunk).self)

NoRunner == [text_storage |-> FALSE, vector_storage |-> {}]
NoResults == [kind |-> "none", total_chunks |-> 0, stored_vector |-> 0,
              stored_text |-> 0, errors |-> <<>>]

\* VectorStorageFactory.create_from_config: the instance as an option ({} is
\* None); with clear set the new instance is cleared, whatever upload says.
create_from_config(cfg, saved) ==
    IF cfg.vector
    THEN LET storage_instance ==
                 _initialize_index([dimension |-> StoreDimension], saved)
         IN IF cfg.clear THEN {clear(storage_instance)} ELSE {storage_instance}
    ELSE {}

\* StorageRunner.__init__ (src): both factories are called.
StorageRunner(cfg, saved) ==
    [text_storage |-> TRUE, vector_storage |-> create_from_config(cfg, saved)]

\* _initialize_storage (evals): a client exists only if its section asks for
\* it and its construction did not raise.
_initialize_storage(cfg, vector_db_ok, sql_client_ok) ==
    [text_storage |-> cfg.text_store /\ sql_client_ok,
     vector_storage |-> IF cfg.vector /\ cfg.upload /\ vector_db_ok
                        THEN {"pinecone"} ELSE {}]

\* SQLiteDB.store_document_chunk / SQLClient.store_document: INSERT OR REPLACE
\* by id; returns True, or raises SQLiteError when the statement fails.
store_document(table, chunk, ok) ==
    IF ok THEN [kind |-> "ok", table |-> table \cup {chunk.id}]
    ELSE [kind |-> "raise", table |-> table]

\* VectorDB.upload (Pinecone): raises without embedding, else upserts by id.
VectorDB_upload(index, chunk, ok) ==
    IF chunk.embedding = NoEmbedding \/ ~ok
    THEN [kind |-> "raise", index |-> index]
    ELSE [kind |-> "ok", index |-> index \cup {chunk.id}]

\* embedded_chunks of run_storage: the chunks whose embedding is not None.
with_embeddings(cs) == SelectSeq(cs, LAMBDA c : c.embedding # NoEmbedding)

Write(store, id, ok) == [op |-> "write", store |-> store, id |-> id, ok |-> ok]
ClearCall(ok) == [op |-> "clear", store |-> "vector", id |-> "-", ok |-> ok]
Error(store, id) == [store |-> store, id |-> id]

(***************************************************************************)
(* The embedding stage.                                                    *)
(***************************************************************************)
EmbedTexts == {"t1", "t2"}

EmbedChunkLists ==
    UNION {{[k \in 1..n |-> [id |-> ChunkIdAt[k], text |-> t[k],
                             embedding |-> NoEmbedding]] :
              t \in [1..n -> EmbedTexts]} : n \in 0..MaxChunks}

EmbeddingConfigs ==
    [use_threading : BOOLEAN, max_workers : 1..MaxWorkers,
     dimension_reduction : BOOLEAN]

\* _embed_chunk_raw: the provider's vector for a text, a function of the text.
Embed(text) == <<"raw", text>>

\* _embed_chunks_raw: one raw vector per chunk, in the order of the chunks.
_embed_chunks_raw(cs) == [k \in 1..Len(cs) |-> Embed(cs[k].text)]

\* reducer.fit_transform: the model is fitted on the vectors it is given (and
\* is identified by them); each vector is then transformed by that model.
\* Without a reducer the raw vectors are kept (fit_on is empty).
fit_transform(embeddings) ==
    [k \in 1..Len(embeddings) |-> [raw |-> embeddings[k], fit_on |-> embeddings]]

not_reduced(embeddings) ==
    [k \in 1..Len(embeddings) |-> [raw |-> embeddings[k], fit_on |-> <<>>]]

\* No file at the reducer's path.
NoArtifact == [state |-> "missing", model |-> <<>>]

\* What joblib.dump has written once it is through: the fitted model.
Payload(model) == [state |-> "complete", model |-> model]

\* The artifact an earlier ingest run with the same configuration left.
EarlierArtifact == Payload(<<Embed("t0")>>)

\* The fit and the save of one fit_transform / save pair; `after` is the
\* number of tasks whose raw embeddings were computed when the reducer was
\* fitted (a task that fits has computed its own).
FitAndSave(embeddings, after) ==
    <<[op |-> "fit", on |-> embeddings, after |-> after],
      [op |-> "save", on |-> embeddings, after |-> after]>>

\* The file at the reducer's path after the saves of a log were made on it.
Saved(file, log) ==
    IF log = <<>> THEN file ELSE Payload(log[Len(log)].on)

\* The fields of models.DocumentChunk, which the src generation's embedder
\* imports, and of utils.types.chunks.DocumentChunk, which the runners and the
\* evals generation's embedder import.
models_DocumentChunk == {"id", "text", "embedding"}

types_DocumentChunk == {"id", "text", "embeddding"}

\* The DocumentChunk class the embedder of a generation instantiates.
DocumentChunkOf(generation) ==
    IF generation = "src" THEN models_DocumentChunk ELSE types_DocumentChunk

\* A pydantic model built from keyword arguments: a keyword that names no
\* field is ignored, an optional field without a keyword keeps its default.
DocumentChunk(class, kwargs) ==
    [f \in class |-> IF f \in DOMAIN kwargs THEN kwargs[f] ELSE NoEmbedding]

\* The DocumentChunk built from a chunk and its embedding: the keyword is
\* embeddding whatever the class.
EmbeddedChunk(class, chunk, embedding) ==
    DocumentChunk(class, [id |-> chunk.id, text |-> chunk.text,
                          embeddding |-> embedding])

\* BaseEmbedder.embed_chunks: raw vectors, then (with a reducer) a fit on these
\* very vectors and a save; PCA cannot be fitted on no sample.
embed_chunks(class, cs, reducer, after) ==
    LET raw_embeddings == _embed_chunks_raw(cs)
    IN IF reducer /\ raw_embeddings = <<>>
       THEN [kind |-> "raise", items |-> <<>>, log |-> <<>>]
       ELSE LET reduced_embeddings == IF reducer THEN fit_transform(raw_embeddings)
                                      ELSE not_reduced(raw_embeddings)
            IN [kind |-> "ok",
                items |-> [k \in 1..Len(cs) |->
                             EmbeddedChunk(class, cs[k], reduced_embeddings[k])],
                log |-> IF reducer THEN FitAndSave(raw_embeddings, after)
                        ELSE <<>>]

\* chunk_size of _run_embedder_threaded.
chunk_size(n, max_workers) ==
    LET q == IF n \div max_workers > 1 THEN n \div max_workers ELSE 1
    IN IF n % max_workers # 0 THEN q + 1 ELSE q

\* chunk_batches: chunks[i:i + chunk_size] for i in range(0, n, chunk_size).
chunk_batches(cs, max_workers) ==
    LET n == Len(cs)
        size == chunk_size(n, max_workers)
        count == (n + size - 1) \div size
    IN [b \in 1..count |->
          SubSeq(cs, (b - 1) * size + 1,
                 IF b * size < n THEN b * size ELSE n)]

Pending == [kind |-> "pending", items |-> <<>>]

\* _process_chunk_batch_raw (src): the pairs (chunk, raw embedding).
_process_chunk_batch_raw(batch) ==
    [kind |-> "ok",
     items |-> [k \in 1..Len(batch) |->
                  [chunk |-> batch[k],
                   raw_embedding |-> _embed_chunks_raw(batch)[k]]]]

\* The results of the tasks in the order in which the tasks finished.
as_completed(outcomes, order) ==
    [k \in 1..Len(order) |-> outcomes[order[k]]]

\* asyncio.gather(*tasks, return_exceptions=True): the results in the order
\* of the tasks, whatever the order in which they finished.
gather(outcomes, order) ==
    [k \in 1..Len(outcomes) |-> outcomes[k]]

RECURSIVE flatten(_)
\* The loop over batch_results: the items of all results, result by result.
flatten(rs) ==
    IF rs = <<>> THEN <<>> ELSE Head(rs).items \o flatten(Tail(rs))

(***************************************************************************)
(* PCAReducer (ingest) and PCALoader (mcp_server): the reducer lifecycle.  *)
(* An embedding matrix is modelled by its shape, a fitted PCA by the       *)
(* number of its components and of the features it was fitted on, and a    *)
(* list of vectors by the list of their lengths.                           *)
(***************************************************************************)
ReducerClasses == {"PCAReducer", "PCALoader"}

TargetDims == 1..MaxTargetDim

\* Row counts and row lengths of the embedding matrices handed to a reducer.
SampleCounts == {1, 2}

FeatureCounts == {1, 2}

EmbeddingShapes == [n_samples : SampleCounts, n_features : FeatureCounts]

min(a, b) == IF a < b THEN a ELSE b

\* __init__: no model, not fitted.
PCAReducer(class, target_dim) ==
    [class |-> class, target_dim |-> target_dim, model |-> {}, is_fitted |-> FALSE]

\* dry_response wraps the methods of PCAReducer only; PCALoader has no mocks.
is_dry_run_mode(self, mode) == mode /\ self.class = "PCAReducer"

\* sklearn's PCA(n_components).fit(X): a ValueError (no model) unless
\* n_components <= min(n_samples, n_features).
PCA(n_components, X) ==
    IF n_components > min(X.n_samples, X.n_features) THEN {}
    ELSE {[n_components |-> n_components, n_features |-> X.n_features]}

\* What a call leaves: the object, how the call ended, what it returned.
Raise(self, error) == [self |-> self, kind |-> "raise", error |-> error, out |-> <<>>]

Return(self, out) == [self |-> self, kind |-> "ok", error |-> "none", out |-> out]

\* fit: n_comp = min(target_dim, X.shape[1]); the mock only sets is_fitted.
fit(self, X, mode) ==
    IF is_dry_run_mode(self, mode)
    THEN Return([self EXCEPT !.is_fitted = TRUE], <<>>)
    ELSE LET n_comp == min(self.target_dim, X.n_features)
             model == PCA(n_comp, X)
         IN IF model = {} THEN Raise(self, "ValueError")
            ELSE Return([self EXCEPT !.model = model,
                                     !.is_fitted = (self.class = "PCAReducer")],
                        <<>>)

\* self.model.transform(X): one row of n_components per row of X; sklearn
\* refuses rows of another length than the one the model was fitted on.
model_transform(model, X) ==
    IF X.n_features # model.n_features THEN <<>>
    ELSE [k \in 1..X.n_samples |-> model.n_components]

\* A transform that does not look whether there is a model.
transform_unchecked(self, X, mode) ==
    IF self.model = {}
    THEN Return(self, [k \in 1..X.n_samples |-> self.target_dim])
    ELSE LET Z == model_transform(CHOOSE m \in self.model : TRUE, X)
         IN IF Z = <<>> THEN Raise(self, "ValueError") ELSE Return(self, Z)

\* transform: the mock returns target_dim random values per input row.
transform(self, X, mode) ==
    IF is_dry_run_mode(self, mode)
    THEN Return(self, [k \in 1..X.n_samples |-> self.target_dim])
    ELSE IF self.model = {} THEN Raise(self, "RuntimeError")
    ELSE LET Z == model_transform(CHOOSE m \in self.model : TRUE, X)
         IN IF Z = <<>> THEN Raise(self, "ValueError") ELSE Return(self, Z)

\* transform_one: transform of the one-row matrix [vec], returning its row.
transform_one(self, n_features, mode) ==
    IF is_dry_run_mode(self, mode)
    THEN Return(self, <<self.target_dim>>)
    ELSE IF self.model = {} THEN Raise(self, "RuntimeError")
    ELSE LET Z == model_transform(CHOOSE m \in self.model : TRUE,
                                  [n_samples |-> 1, n_features |-> n_features])
         IN IF Z = <<>> THEN Raise(self, "ValueError") ELSE Return(self, Z)

\* The payload save dumps: the model and meta.target_dim.
payload(self) ==
    [state |-> "complete", model |-> self.model,
     meta |-> [target_dim |-> self.target_dim]]

\* The file while one joblib.dump is writing it, and while several are.
Partial == [state |-> "partial", model |-> <<>>]

Torn == [state |-> "torn", model |-> <<>>]

\* save, up to joblib.dump: the mock writes nothing; out is what is dumped.
save(self, mode) ==
    IF is_dry_run_mode(self, mode) THEN Return(self, <<>>)
    ELSE IF self.model = {} THEN Raise(self, "RuntimeError")
    ELSE Return(self, <<payload(self)>>)

\* load: the mock only sets is_fitted; a missing file is PCArtifactNotFoundError,
\* a file that is not a whole pickle makes joblib.load raise; otherwise the
\* model of the payload is taken, whatever its meta says.
load(self, file, mode) ==
    IF is_dry_run_mode(self, mode)
    THEN Return([self EXCEPT !.is_fitted = TRUE], <<>>)
    ELSE IF file.state = "missing" THEN Raise(self, "PCArtifactNotFoundError")
    ELSE IF file.state # "complete" THEN Raise(self, "EOFError")
    ELSE Return([self EXCEPT !.model = file.model,
                             !.is_fitted = (self.class = "PCAReducer")],
                <<>>)

\* PCAReducer.clear: the in-memory model is dropped (the file is removed by
\* the action).
PCAReducer_clear(self) ==
    Return([self EXCEPT !.model = {}, !.is_fitted = FALSE], <<>>)

\* What reducer_ret holds for a call.
ReducerCall(op, class, before, seen, r) ==
    [op |-> op, class |-> class, before |-> before, seen |-> seen,
     kind |-> r.kind, error |-> r.error, out |-> r.out]

NoReducerCall ==
    [op |-> "none", class |-> "none", before |-> PCAReducer("none", 0),
     seen |-> NoArtifact, kind |-> "ok", error |-> "none", out |-> <<>>]

(***************************************************************************)
(* OpenAIEmbedder: the cache and the retry loops around the API calls.     *)
(***************************************************************************)
\* max_retries of _embeddings and of _retry_with_backoff.
max_retries == 5

\* One text within the model's token limit and one beyond it.
OpenAITexts == {"short", "long"}

_is_too_large(text) == text = "long"

\* How a call of client.embeddings.create ends: a response, or one of the
\* client's exceptions (HTTP 429, HTTP 5xx, no connection, HTTP 401).
ApiOutcomes == {"ok", "RateLimitError", "InternalServerError",
                "APIConnectionError", "AuthenticationError"}

\* _embeddings after its call number attempt (from 0) ended: only
\* RateLimitError is caught, and re-raised on the last attempt.
_embeddings(attempt, outcome) ==
    IF outcome = "ok" THEN "return"
    ELSE IF outcome = "RateLimitError" /\ attempt # max_retries - 1 THEN "retry"
    ELSE "raise"

\* _retry_with_backoff after its call number attempt (from 0) ended: every
\* Exception is caught, and re-raised on the last attempt.
_retry_with_backoff(attempt, outcome) ==
    IF outcome = "ok" THEN "return"
    ELSE IF attempt # max_retries - 1 THEN "retry"
    ELSE "raise"

\* A request that is waiting for its API call.
Calling(path, text, via) ==
    [path |-> path, text |-> text, via |-> via, attempt |-> 0,
     status |-> "calling", error |-> "none", repeat |-> text \in embedded_texts]

\* A request answered from the cache.
FromCache(path, text) ==
    [path |-> path, text |-> text, via |-> "cache", attempt |-> 0,
     status |-> "returned", error |-> "none", repeat |-> text \in embedded_texts]

NoRequest ==
    [path |-> "none", text |-> "none", via |-> "none", attempt |-> 0,
     status |-> "returned", error |-> "none", repeat |-> FALSE]

\* create_embedding up to its first API call: the cache is looked up first;
\* a text within the limit goes to _embeddings, a longer one is split and
\* its pieces go to create_embeddings_batch.
create_embedding(path, text) ==
    IF text \in cache THEN FromCache(path, text)
    ELSE IF ~_is_too_large(text) THEN Calling(path, text, "_embeddings")
    ELSE Calling(path, text, "_retry_with_backoff")

\* _embed_chunks_raw for one text, up to its first API call: a text within
\* the limit goes straight to _embeddings, a longer one to create_embedding.
OpenAI_embed_chunks_raw(text) ==
    IF ~_is_too_large(text) THEN Calling("_embed_chunks_raw", text, "_embeddings")
    ELSE create_embedding("_embed_chunks_raw", text)

(***************************************************************************)
(* What the variables of a state machine hold while another one runs.      *)
(***************************************************************************)
NoCall == [op |-> "none", kind |-> "ok"]

IdleFaiss ==
    /\ vector_storage = FAISSVectorDB(StoreDimension)
    /\ ret = NoCall
    /\ deleted_ids = {}

IdleStore ==
    /\ storage_config = [text_store |-> FALSE, text_upload |-> FALSE, vector |-> FALSE,
                 upload |-> FALSE, clear |-> FALSE]
    /\ pos = 1
    /\ runner = NoRunner
    /\ sqlite = {}
    /\ pinecone = {}
    /\ results = NoResults
    /\ writes = <<>>

IdleEmbed ==
    /\ embedding_config = [use_threading |-> FALSE, max_workers |-> 1,
                           dimension_reduction |-> FALSE]
    /\ tasks = <<>>
    /\ batch_results = <<>>
    /\ completed = <<>>
    /\ reducer_log = <<>>
    /\ embedded_chunks = <<>>
    /\ artifact = NoArtifact
    /\ artifact_at_start = NoArtifact

IdleReducer ==
    /\ reducers = [c \in ReducerClasses |-> PCAReducer(c, 1)]
    /\ dry_run = FALSE
    /\ saving = {}
    /\ reducer_ret = NoReducerCall

IdleOpenAI ==
    /\ cache = {}
    /\ embedded_texts = {}
    /\ request = NoRequest
    /\ api_calls = <<>>

IdleParser ==
    /\ parser_config = [processes |-> <<>>]
    /\ document = [text |-> <<>>]
    /\ document_chunks = <<>>
    /\ parser_pc = "idle"

IdleEarlier ==
    /\ variant = "src"
    /\ chunks = <<>>
    /\ pc = "idle"
    /\ IdleFaiss
    /\ disk = _save_index(FAISSVectorDB(StoreDimension))
    /\ IdleStore
    /\ IdleEmbed
    /\ IdleReducer
    /\ IdleOpenAI

IdleMain ==
    /\ run_config = [parser |-> FALSE, embedding |-> FALSE,
                     dimension_reduction |-> FALSE, text_store |-> FALSE,
                     vector |-> FALSE, eval |-> FALSE, dry_run |-> FALSE]
    /\ dataset = [exists |-> FALSE, texts |-> <<>>]
    /\ main_locals = [documents |-> {}, document_chunks |-> {}, embedded_chunks |-> {}]
    /\ main_pc = "idle"
    /\ stages = <<>>
    /\ effects = <<>>
    /\ exit_code = {}

NoAgentRun == [kind |-> "none", seconds |-> 0, turns |-> 0]

IdleAgent ==
    /\ agent_test = [mcp |-> "stdio", timeout |-> {}, max_turns |-> 1]
    /\ agent_run = NoAgentRun
    /\ test_result = {}
    /\ agent_pc = "idle"

IdleTokens ==
    /\ token_call = [ids |-> 0, max_tokens |-> 1, overlap |-> 0]
    /\ chunk_start = 0
    /\ windows = {}
    /\ chunks_parity = 0
    /\ token_pc = "idle"

IdleLater ==
    /\ IdleParser
    /\ IdleMain
    /\ IdleAgent
    /\ IdleTokens

(***************************************************************************)
(* SpecFaiss: the calls a client makes on one index path.                  *)
(***************************************************************************)
notFaiss == <<runVars, storeVars, embedVars, reducerVars, openaiVars, laterVars>>

IdLists == {<<>>} \cup {<<a>> : a \in IdStrings}
              \cup {<<a, b>> : a \in {<<"0">>}, b \in IdStrings \ {<<"0">>}}

\* Positions named by a list of id strings.
Positions(ids) ==
    {int(ids[k]).value : k \in {j \in 1..Len(ids) : ~int(ids[j]).raised}}

InitFaiss ==
    /\ \E d \in Dimensions :
         /\ vector_storage = FAISSVectorDB(d)
         /\ disk = _save_index(FAISSVectorDB(d))
    /\ ret = NoCall
    /\ deleted_ids = {}
    /\ variant = "src"
    /\ chunks = <<>>
    /\ pc = "idle"
    /\ IdleStore
    /\ IdleEmbed
    /\ IdleReducer
    /\ IdleOpenAI
    /\ IdleLater

Upload ==
    /\ \E chunk \in ChunkInputs :
         LET r == upload(vector_storage, chunk)
         IN /\ Len(r.self.index.vectors) <= MaxVectors
            /\ vector_storage' = r.self
            /\ disk' = IF r.kind = "ok" \/ r.recreated
                       THEN _save_index(r.self) ELSE disk
            /\ ret' = [op |-> "upload", kind |-> r.kind,
                       vector_id |-> r.vector_id,
                       mismatch |-> /\ chunk.embedding # NoEmbedding
                                    /\ Len(chunk.embedding) # vector_storage.index.d,
                       recreated |-> r.recreated]
            /\ deleted_ids' = IF r.recreated THEN {} ELSE deleted_ids
    /\ UNCHANGED notFaiss

RetrieveFromId ==
    /\ \E vector_id \in IdStrings :
         LET r == retrieve_from_id(vector_storage, vector_id)
         IN ret' = [op |-> "retrieve_from_id", kind |-> r.kind,
                    vector_id |-> vector_id, value |-> r.value]
    /\ UNCHANGED <<vector_storage, disk, deleted_ids, notFaiss>>

Query ==
    /\ \E vector \in QueryVectors, top_k \in 1..MaxTopK, filter \in Filters :
         LET r == query(vector_storage, vector, top_k, TRUE, filter)
         IN ret' = [op |-> "query", kind |-> r.kind, vector |-> vector,
                    top_k |-> top_k, filter |-> filter, results |-> r.results]
    /\ UNCHANGED <<vector_storage, disk, deleted_ids, notFaiss>>

Delete ==
    /\ \E ids \in IdLists :
         LET r == delete(vector_storage, ids)
         IN /\ vector_storage' = r.self
            /\ disk' = IF r.kind = "ok" THEN _save_index(r.self) ELSE disk
            /\ ret' = [op |-> "delete", kind |-> r.kind, ids |-> ids,
                       deleted_count |-> r.deleted_count]
            /\ deleted_ids' =
                 IF r.kind = "ok"
                 THEN deleted_ids \cup
                      (Positions(ids) \cap DOMAIN vector_storage.metadata)
                 ELSE deleted_ids
    /\ UNCHANGED notFaiss

Clear ==
    /\ vector_storage' = clear(vector_storage)
    /\ disk' = _save_index(clear(vector_storage))
    /\ ret' = [op |-> "clear", kind |-> "ok"]
    /\ deleted_ids' = {}
    /\ UNCHANGED notFaiss

\* A later FAISSVectorDB(config) on the same index path.
Reopen ==
    /\ vector_storage' = _initialize_index(vector_storage.config, disk)
    /\ ret' = [op |-> "init", kind |-> "ok"]
    /\ deleted_ids' = {p \in deleted_ids :
                         /\ p \in DOMAIN disk.metadata
                         /\ "deleted" \in DOMAIN disk.metadata[p]}
    /\ UNCHANGED <<disk, notFaiss>>

NextFaiss == Upload \/ RetrieveFromId \/ Query \/ Delete \/ Clear \/ Reopen

SpecFaiss == InitFaiss /\ [][NextFaiss]_vars

\* The positions (from 0) of the entries stored for a chunk id.
EntriesOf(chunk_id) ==
    {p \in DOMAIN vector_storage.metadata :
       vector_storage.metadata[p].chunk_id = chunk_id}

\* C4: upload is idempotent on the chunk id: once an upload has returned, the
\* store holds exactly one entry for the id of the uploaded chunk, and it is
\* the entry this upload wrote (the data of the last upload).
C4_UploadIdempotentOnId ==
    (ret.op = "upload" /\ ret.kind = "ok") =>
        EntriesOf(vector_storage.metadata[ret.vector_id].chunk_id)
            = {ret.vector_id}

\* C5: once delete(ids) has returned, no query returns an entry whose id is
\* in ids, whatever the query vector, top_k and filter.
C5_QueryOmitsDeleted ==
    (ret.op = "query" /\ ret.kind = "ok") =>
        \A k \in 1..Len(ret.results) :
            int(ret.results[k].id).value \notin deleted_ids

\* The positions (from 0) of all stored entries, best score first, for the
\* query vector of the last call.
Ranking == search(vector_storage.index, ret.vector, Len(vector_storage.index.vectors))

\* Those of them whose metadata satisfies the filter of the last call.
MatchingRanking ==
    SelectSeq(Ranking, LAMBDA idx : should_include(vector_storage, idx, ret.filter))

\* C27: query returns exactly the min(top_k, m) highest-scoring entries among
\* the m stored entries whose metadata satisfies the filter, best first.
C27_QueryReturnsTopKOfMatching ==
    (ret.op = "query" /\ ret.kind = "ok") =>
        LET m == Len(MatchingRanking)
            expected == SubSeq(MatchingRanking, 1, IF ret.top_k < m THEN ret.top_k ELSE m)
        IN /\ Len(ret.results) = Len(expected)
           /\ \A k \in 1..Len(expected) : ret.results[k].id = str(expected[k])

\* The index holds as many vectors as there are metadata records, at the
\* same positions, and every id a query returned names a metadata record,
\* the one handed back with it.
IndexMatchesMetadata ==
    /\ DOMAIN vector_storage.metadata = 0..(Len(vector_storage.index.vectors) - 1)
    /\ (ret.op = "query" /\ ret.kind = "ok") =>
          \A k \in 1..Len(ret.results) :
              /\ int(ret.results[k].id).value \in DOMAIN vector_storage.metadata
              /\ ret.results[k].metadata =
                    {vector_storage.metadata[int(ret.results[k].id).value]}

\* A step leaves every vector and its record where they were, unless it
\* starts the index afresh; a vector is added only together with the record
\* of the same position.
PairsStay ==
    LET n == Len(vector_storage.index.vectors)
        n_after == Len(vector_storage'.index.vectors)
    IN \/ n_after <= 1
       \/ /\ n_after \in {n, n + 1}
          /\ \A p \in 0..(n - 1) :
                /\ vector_storage'.index.vectors[p + 1] = vector_storage.index.vectors[p + 1]
                /\ vector_storage'.metadata[p].chunk_id = vector_storage.metadata[p].chunk_id

\* C29: after any sequence of upload, delete and clear calls (uploads that
\* change the dimension included) the index holds one vector per metadata
\* record, vector i being the one uploaded with record i, so that every id
\* a query returns resolves to the metadata of the matched chunk.
C29_IndexAndMetadataAligned ==
    /\ IndexMatchesMetadata
    /\ [][IndexMatchesMetadata' /\ PairsStay]_vars

\* An upload has changed the dimension of an index that held an entry.
C29_Witness ==
    /\ ret.op = "upload" /\ ret.kind = "ok" /\ ret.recreated
    /\ Len(vector_storage.index.vectors) = 1

\* Whether some stored entry has the id string vector_id.
Present(vector_id) ==
    \E p \in DOMAIN vector_storage.metadata : str(p) = vector_id

\* C6: retrieve_from_id returns the stored metadata when the id is present and
\* null when it is not; it never raises, whatever the id string is.
C6_RetrieveNeverRaisesOnMissing ==
    ret.op = "retrieve_from_id" =>
        /\ ret.kind = "ok"
        /\ ~Present(ret.vector_id) => ret.value = {}
        /\ Present(ret.vector_id) =>
             \E p \in DOMAIN vector_storage.metadata :
                 str(p) = ret.vector_id /\ ret.value = {vector_storage.metadata[p]}

\* C7: an upload whose embedding dimension differs from the index dimension
\* either recreates the index at the new dimension and reports IndexReset to
\* the caller, or fails.
C7_MismatchReportedOrFails ==
    (ret.op = "upload" /\ ret.mismatch) =>
        \/ ret.kind = "raise"
        \/ ret.recreated /\ ret.kind = "IndexReset"

(***************************************************************************)
(* SpecStore: one run of the storage stage.                                *)
(***************************************************************************)
notStore == <<vector_storage, ret, deleted_ids, embedVars, reducerVars,
              openaiVars, laterVars>>

InitStore ==
    /\ variant \in Variants
    /\ chunks \in StoreChunkLists
    /\ storage_config \in StorageConfigs
    /\ \E old \in BOOLEAN :
         /\ disk = IF old THEN OldIndex
                   ELSE _save_index(FAISSVectorDB(StoreDimension))
         /\ pinecone = IF old THEN {OldChunk.id} ELSE {}
    /\ pc = "main"
    /\ pos = 1
    /\ runner = NoRunner
    /\ sqlite = {}
    /\ results = NoResults
    /\ writes = <<>>
    /\ IdleFaiss
    /\ IdleEmbed
    /\ IdleReducer
    /\ IdleOpenAI
    /\ IdleLater

\* main (src): the storage stage runs only under storage.text_store; the
\* storage.vector branch of main is empty.  StorageRunner() then builds both
\* clients, and the vector factory clears a new instance when clear is set.
SrcMain ==
    /\ variant = "src" /\ pc = "main"
    /\ IF storage_config.text_store
       THEN LET self == StorageRunner(storage_config, disk)
            IN /\ runner' = self
               /\ disk' = IF storage_config.vector /\ storage_config.clear
                          THEN _save_index(CHOOSE s \in self.vector_storage : TRUE)
                          ELSE disk
               /\ writes' = IF storage_config.vector /\ storage_config.clear
                            THEN Append(writes, ClearCall(TRUE)) ELSE writes
               /\ pc' = "text"
               /\ UNCHANGED results
       ELSE /\ pc' = "done"
            /\ results' = [NoResults EXCEPT !.kind = "skipped"]
            /\ UNCHANGED <<runner, disk, writes>>
    /\ UNCHANGED <<variant, chunks, storage_config, pos, sqlite, pinecone, notStore>>

\* StorageRunner.run (src), the text loop: one chunk per step.  An exception
\* of store_document_chunk is not caught: it ends run and main returns 1.
SrcTextStorage ==
    /\ variant = "src" /\ pc = "text"
    /\ IF runner.text_storage /\ storage_config.text_upload /\ pos <= Len(chunks)
       THEN \E ok \in BOOLEAN :
              LET r == store_document(sqlite, chunks[pos], ok)
              IN /\ sqlite' = r.table
                 /\ writes' = Append(writes, Write("text", chunks[pos].id, ok))
                 /\ IF r.kind = "ok"
                    THEN pos' = pos + 1 /\ UNCHANGED <<pc, results>>
                    ELSE /\ pc' = "raised"
                         /\ results' = [NoResults EXCEPT !.kind = "exit 1"]
                         /\ UNCHANGED pos
       ELSE /\ pc' = "vector"
            /\ pos' = 1
            /\ UNCHANGED <<sqlite, writes, results>>
    /\ UNCHANGED <<variant, chunks, storage_config, runner, disk, pinecone, notStore>>

\* StorageRunner.run (src), the vector loop: one chunk per step.  An exception
\* of upload is logged as a warning and the loop goes on; run returns chunks.
SrcVectorStorage ==
    /\ variant = "src" /\ pc = "vector"
    /\ IF runner.vector_storage # {} /\ storage_config.upload /\ pos <= Len(chunks)
       THEN LET self == CHOOSE s \in runner.vector_storage : TRUE
                r == upload(self, chunks[pos])
            IN /\ runner' = [runner EXCEPT !.vector_storage = {r.self}]
               /\ disk' = IF r.kind = "ok" \/ r.recreated
                          THEN _save_index(r.self) ELSE disk
               /\ writes' = Append(writes,
                                   Write("vector", chunks[pos].id, r.kind = "ok"))
               /\ pos' = pos + 1
               /\ UNCHANGED <<pc, results>>
       ELSE /\ pc' = "done"
            /\ results' = [NoResults EXCEPT !.kind = "chunks",
                                            !.total_chunks = Len(chunks)]
            /\ UNCHANGED <<runner, disk, writes, pos>>
    /\ UNCHANGED <<variant, chunks, storage_config, sqlite, pinecone, notStore>>

\* run_storage (evals), lines 49-57: the results record and the clients.
EvalsInitializeStorage ==
    /\ variant = "evals" /\ pc = "main"
    /\ \E vector_db_ok \in BOOLEAN, sql_client_ok \in BOOLEAN :
         runner' = _initialize_storage(storage_config, vector_db_ok, sql_client_ok)
    /\ results' = [kind |-> "results", total_chunks |-> Len(chunks),
                   stored_vector |-> 0, stored_text |-> 0, errors |-> <<>>]
    /\ pc' = "clear"
    /\ UNCHANGED <<variant, chunks, storage_config, pos, sqlite, pinecone, disk,
                   writes, notStore>>

\* run_storage (evals), lines 63-73: clear, whose failure is recorded.
EvalsClear ==
    /\ variant = "evals" /\ pc = "clear"
    /\ IF storage_config.vector /\ storage_config.clear /\ runner.vector_storage # {}
       THEN \E ok \in BOOLEAN :
              /\ pinecone' = IF ok THEN {} ELSE pinecone
              /\ writes' = Append(writes, ClearCall(ok))
              /\ results' = IF ok THEN results
                            ELSE [results EXCEPT
                                    !.errors = Append(@, Error("vector", "-"))]
       ELSE UNCHANGED <<pinecone, writes, results>>
    /\ pc' = "vector"
    /\ pos' = 1
    /\ UNCHANGED <<variant, chunks, storage_config, runner, sqlite, disk, notStore>>

\* _store_in_vector_db (evals): one chunk with an embedding per step.
EvalsStoreInVectorDb ==
    /\ variant = "evals" /\ pc = "vector"
    /\ LET embedded == with_embeddings(chunks)
       IN IF /\ storage_config.vector /\ storage_config.upload
             /\ runner.vector_storage # {} /\ pos <= Len(embedded)
          THEN \E ok \in BOOLEAN :
                 LET r == VectorDB_upload(pinecone, embedded[pos], ok)
                 IN /\ pinecone' = r.index
                    /\ writes' = Append(writes,
                                   Write("vector", embedded[pos].id, r.kind = "ok"))
                    /\ results' =
                         IF r.kind = "ok"
                         THEN [results EXCEPT !.stored_vector = @ + 1]
                         ELSE [results EXCEPT !.errors =
                                 Append(@, Error("vector", embedded[pos].id))]
                    /\ pos' = pos + 1
                    /\ UNCHANGED pc
          ELSE /\ pc' = "text"
               /\ pos' = 1
               /\ UNCHANGED <<pinecone, writes, results>>
    /\ UNCHANGED <<variant, chunks, storage_config, runner, sqlite, disk, notStore>>

\* _store_in_sqlite (evals): one chunk per step; then run_storage returns.
EvalsStoreInSqlite ==
    /\ variant = "evals" /\ pc = "text"
    /\ IF storage_config.text_store /\ runner.text_storage /\ pos <= Len(chunks)
       THEN \E ok \in BOOLEAN :
              LET r == store_document(sqlite, chunks[pos], ok)
              IN /\ sqlite' = r.table
                 /\ writes' = Append(writes, Write("text", chunks[pos].id, ok))
                 /\ results' =
                      IF r.kind = "ok"
                      THEN [results EXCEPT !.stored_text = @ + 1]
                      ELSE [results EXCEPT !.errors =
                              Append(@, Error("text", chunks[pos].id))]
                 /\ pos' = pos + 1
                 /\ UNCHANGED pc
       ELSE /\ pc' = "done"
            /\ UNCHANGED <<sqlite, writes, results, pos>>
    /\ UNCHANGED <<variant, chunks, storage_config, runner, pinecone, disk, notStore>>

NextStore ==
    \/ SrcMain \/ SrcTextStorage \/ SrcVectorStorage
    \/ EvalsInitializeStorage \/ EvalsClear \/ EvalsStoreInVectorDb
    \/ EvalsStoreInSqlite

SpecStore == InitStore /\ [][NextStore]_vars

\* The run has ended: it returned, or an exception left it.
RunOver == pc \in {"done", "raised"}

\* The chunk ids of the run.
RunIds == {chunks[k].id : k \in 1..Len(chunks)}

\* Whether the text store / the vector store holds the chunk id.
InTextStore(id) == id \in sqlite

InVectorStore(id) ==
    IF variant = "src"
    THEN \E p \in DOMAIN disk.metadata : disk.metadata[p].chunk_id = id
    ELSE id \in pinecone

\* The run was set to write to both stores and held both clients.
BothStores ==
    /\ runner.text_storage /\ runner.vector_storage # {}
    /\ storage_config.upload
    /\ variant = "src" => storage_config.text_upload

\* What the run reports: an error list that is not empty.
partial == results.kind = "results" /\ results.errors # <<>>

PositionOf(id) == CHOOSE k \in 1..Len(chunks) : chunks[k].id = id

\* Whether the run called the store for the chunk id.
Attempted(store, id) ==
    \E k \in 1..Len(writes) :
        writes[k].op = "write" /\ writes[k].store = store /\ writes[k].id = id

\* The writes a run makes when none fails.
Due(store, chunk) ==
    IF store = "text"
    THEN /\ runner.text_storage
         /\ variant = "src" => storage_config.text_upload
    ELSE /\ runner.vector_storage # {} /\ storage_config.upload
         /\ variant = "evals" => chunk.embedding # NoEmbedding

FailedWrites ==
    {k \in 1..Len(writes) : writes[k].op = "write" /\ ~writes[k].ok}

\* C2: a failed write of one chunk never keeps the run from attempting the
\* write of a later chunk, in either store.
C2_FailureDoesNotCancelBatch ==
    RunOver =>
        \A k \in FailedWrites :
            \A j \in 1..Len(chunks), store \in {"text", "vector"} :
                (j > PositionOf(writes[k].id) /\ Due(store, chunks[j]))
                    => Attempted(store, chunks[j].id)

\* C3: every per-chunk error of either store is in the run's error list and
\* counted, and a run with such an error completes and is flagged partial.
C3_ErrorsRecordedAndPartial ==
    (RunOver /\ FailedWrites # {}) =>
        /\ pc = "done"
        /\ partial
        /\ \A k \in FailedWrites :
               \E e \in 1..Len(results.errors) :
                   results.errors[e] = Error(writes[k].store, writes[k].id)
        /\ Cardinality({e \in 1..Len(results.errors) : results.errors[e].id # "-"})
               = Cardinality(FailedWrites)

\* The positions in writes of the clears that wiped the index, and of uploads.
Clears == {k \in 1..Len(writes) : writes[k].op = "clear" /\ writes[k].ok}

Uploads == {k \in 1..Len(writes) : writes[k].op = "write" /\ writes[k].store = "vector"}

\* C8: with storage.vector.clear set, the index is cleared exactly once in a
\* run, and before the first upload of the run (stated here for the runs that
\* upload at all).
C8_ClearedOnceBeforeFirstUpload ==
    (RunOver /\ storage_config.vector /\ storage_config.clear /\ Uploads # {}) =>
        /\ Cardinality(Clears) = 1
        /\ \A c \in Clears, u \in Uploads : c < u

\* The calls of the run that change the vector store: uploads and clears.
VectorStoreCalls == {k \in 1..Len(writes) : writes[k].store = "vector"}

\* C26: a vector store configured with upload = false receives no write
\* during the run, whatever its other options (clear included) are.
C26_NoUploadNoVectorWrite ==
    (storage_config.vector /\ ~storage_config.upload) => VectorStoreCalls = {}

\* The store calls of the run that write a chunk, in the order they were made.
ChunkWrites == {k \in 1..Len(writes) : writes[k].op = "write"}

\* C17: the writes are issued chunk by chunk: the vector write and the text
\* write of a chunk are both issued before any write of a later chunk, so no
\* write of a chunk follows a write of a chunk after it in the input.
C17_WritesSequentialPerChunk ==
    \A a \in ChunkWrites, b \in ChunkWrites :
        a < b => PositionOf(writes[a].id) <= PositionOf(writes[b].id)

(***************************************************************************)
(* SpecEmbed: one run of the embedding stage.                              *)
(***************************************************************************)
notEmbed == <<faissVars, storeVars, reducerVars, openaiVars, laterVars>>

InitEmbed ==
    /\ variant \in Variants
    /\ chunks \in EmbedChunkLists
    /\ embedding_config \in EmbeddingConfigs
    /\ pc = "main"
    /\ tasks = <<>>
    /\ batch_results = <<>>
    /\ completed = <<>>
    /\ reducer_log = <<>>
    /\ embedded_chunks = <<>>
    /\ artifact \in {NoArtifact, EarlierArtifact}
    /\ artifact_at_start = artifact
    /\ IdleFaiss
    /\ disk = _save_index(FAISSVectorDB(StoreDimension))
    /\ IdleStore
    /\ IdleReducer
    /\ IdleOpenAI
    /\ IdleLater

\* run_embedder -> _run_embedder_sequential: embed_chunks on the whole list;
\* a failing provider call ends the run with its exception.
RunEmbedderSequential ==
    /\ pc = "main"
    /\ ~(embedding_config.use_threading /\ Len(chunks) > 1)
    /\ \E ok \in BOOLEAN :
         LET r == embed_chunks(DocumentChunkOf(variant), chunks,
                               embedding_config.dimension_reduction, 0)
         IN IF ok /\ r.kind = "ok"
            THEN /\ embedded_chunks' = r.items
                 /\ reducer_log' = r.log
                 /\ artifact' = Saved(artifact, r.log)
                 /\ pc' = "done"
            ELSE /\ pc' = "raised"
                 /\ UNCHANGED <<embedded_chunks, reducer_log, artifact>>
    /\ UNCHANGED <<variant, chunks, embedding_config, tasks, batch_results,
                   completed, artifact_at_start, notEmbed>>

\* run_embedder -> _run_embedder_threaded, up to asyncio.gather: one task per
\* batch, all of them running.
RunEmbedderThreaded ==
    /\ pc = "main"
    /\ embedding_config.use_threading /\ Len(chunks) > 1
    /\ tasks' = chunk_batches(chunks, embedding_config.max_workers)
    /\ batch_results' = [k \in 1..Len(tasks') |-> Pending]
    /\ pc' = "gather"
    /\ UNCHANGED <<variant, chunks, embedding_config, completed, reducer_log,
                   embedded_chunks, artifact, artifact_at_start, notEmbed>>

\* One task finishes, in any order: _process_chunk_batch_raw (src) returns the
\* raw pairs; _process_chunk_batch (evals) runs embed_chunks on its batch, and
\* so fits and saves a reducer of its own.  A failing provider call makes the
\* task's result an exception.
TaskFinishes ==
    /\ pc = "gather"
    /\ \E k \in 1..Len(tasks), ok \in BOOLEAN :
         /\ batch_results[k] = Pending
         /\ LET r == IF variant = "src"
                     THEN _process_chunk_batch_raw(tasks[k])
                     ELSE embed_chunks(DocumentChunkOf(variant), tasks[k],
                                       embedding_config.dimension_reduction,
                                       Len(completed) + 1)
            IN IF ok /\ r.kind = "ok"
               THEN /\ batch_results' = [batch_results EXCEPT ![k] =
                                           [kind |-> "ok", items |-> r.items]]
                    /\ reducer_log' = IF variant = "src" THEN reducer_log
                                      ELSE reducer_log \o r.log
                    /\ artifact' = IF variant = "src" THEN artifact
                                   ELSE Saved(artifact, r.log)
               ELSE /\ batch_results' = [batch_results EXCEPT ![k] =
                                           [kind |-> "raise", items |-> <<>>]]
                    /\ UNCHANGED <<reducer_log, artifact>>
         /\ completed' = Append(completed, k)
    /\ UNCHANGED <<variant, chunks, embedding_config, tasks, pc, embedded_chunks,
                   artifact_at_start, notEmbed>>

\* gather returns once every task has finished; the loop over batch_results
\* re-raises the first exception, else flattens.  The src generation then fits
\* one reducer on all raw embeddings, saves it, and builds the chunks.
Join ==
    /\ pc = "gather"
    /\ \A k \in 1..Len(tasks) : batch_results[k] # Pending
    /\ LET rs == gather(batch_results, completed)
           all == flatten(rs)
       IN IF \E k \in 1..Len(rs) : rs[k].kind = "raise"
          THEN /\ pc' = "raised"
               /\ UNCHANGED <<embedded_chunks, reducer_log, artifact>>
          ELSE /\ pc' = "done"
               /\ IF variant = "src"
                  THEN LET all_raw_embeddings ==
                               [k \in 1..Len(all) |-> all[k].raw_embedding]
                           reduced_embeddings ==
                               IF embedding_config.dimension_reduction
                               THEN fit_transform(all_raw_embeddings)
                               ELSE not_reduced(all_raw_embeddings)
                       IN /\ embedded_chunks' =
                               [k \in 1..Len(all) |->
                                  EmbeddedChunk(types_DocumentChunk, all[k].chunk,
                                                reduced_embeddings[k])]
                          /\ reducer_log' =
                               IF embedding_config.dimension_reduction
                               THEN reducer_log \o
                                    FitAndSave(all_raw_embeddings, Len(completed))
                               ELSE reducer_log
                          /\ artifact' =
                               IF embedding_config.dimension_reduction
                               THEN Payload(all_raw_embeddings) ELSE artifact
                  ELSE /\ embedded_chunks' = all
                       /\ UNCHANGED <<reducer_log, artifact>>
    /\ UNCHANGED <<variant, chunks, embedding_config, tasks, batch_results,
                   completed, artifact_at_start, notEmbed>>

NextEmbed == RunEmbedderSequential \/ RunEmbedderThreaded \/ TaskFinishes \/ Join

SpecEmbed == InitEmbed /\ [][NextEmbed]_vars

\* The run took the threaded path and its join returned a list.
ThreadedDone ==
    pc = "done" /\ embedding_config.use_threading /\ Len(chunks) > 1

\* C9: with use_threading and more than one chunk, whatever the order in which
\* the tasks finish, the joined list has the length and the chunk order of the
\* input, and each chunk carries the embedding computed from its own text.
C9_JoinPreservesInputOrder ==
    ThreadedDone =>
        /\ Len(embedded_chunks) = Len(chunks)
        /\ \A k \in 1..Len(chunks) :
               /\ embedded_chunks[k].id = chunks[k].id
               /\ embedded_chunks[k].text = chunks[k].text
               /\ embedded_chunks[k].embeddding.raw = Embed(chunks[k].text)

\* A threaded run whose tasks finished in another order than they were
\* started, on chunks of different texts, has returned its list.
C9_Witness ==
    /\ ThreadedDone
    /\ Len(tasks) > 1
    /\ \E k \in 1..Len(completed) : completed[k] # k
    /\ \E j \in 1..Len(chunks), k \in 1..Len(chunks) : chunks[j].text # chunks[k].text

\* The fits recorded by the run.
Fits == {k \in 1..Len(reducer_log) : reducer_log[k].op = "fit"}

Saves == {k \in 1..Len(reducer_log) : reducer_log[k].op = "save"}

\* C10: with dimension_reduction configured, the reducer is fitted exactly
\* once, on the raw vectors of all chunks of the run and after every task has
\* finished; no task fits or saves a reducer on its own subset.
C10_ReducerFittedOnceGlobally ==
    (pc = "done" /\ embedding_config.dimension_reduction) =>
        /\ Cardinality(Fits) = 1
        /\ Cardinality(Saves) = 1
        /\ \A k \in Fits :
               /\ reducer_log[k].on = _embed_chunks_raw(chunks)
               /\ reducer_log[k].after = Len(tasks)

\* The reducer models that transformed the returned embeddings.
ModelsUsed ==
    {embedded_chunks[k].embeddding.fit_on :
        k \in {j \in 1..Len(embedded_chunks) :
                 "embeddding" \in DOMAIN embedded_chunks[j]}}

\* C11: a run that finds the artifact of an earlier run with the same
\* dimension_reduction configuration loads it and only transforms: it fits no
\* reducer, it does not write the artifact, and its embeddings are those of
\* the persisted model.
C11_LaterRunsLoadAndTransform ==
    (/\ pc = "done" /\ embedding_config.dimension_reduction
     /\ artifact_at_start # NoArtifact) =>
        /\ Fits = {}
        /\ Saves = {}
        /\ artifact = artifact_at_start
        /\ ModelsUsed \subseteq {artifact_at_start.model}

\* The vector a chunk carries, under either spelling of its field.
embedding_of(chunk) ==
    IF "embedding" \in DOMAIN chunk THEN chunk.embedding ELSE chunk.embeddding

\* C13: the list embed_chunks returns is as long as its input and, at every
\* index, holds a chunk with the id and the text of the input chunk and with
\* its embedding set.
C13_EmbeddingSetIdentityKept ==
    pc = "done" =>
        /\ Len(embedded_chunks) = Len(chunks)
        /\ \A k \in 1..Len(chunks) :
               /\ embedded_chunks[k].id = chunks[k].id
               /\ embedded_chunks[k].text = chunks[k].text
               /\ embedding_of(embedded_chunks[k]) # NoEmbedding

(***************************************************************************)
(* SpecReducer: the calls made on the reducers that share one artifact     *)
(* path, the ingest side's PCAReducer and the server side's PCALoader.     *)
(***************************************************************************)
notReducer == <<faissVars, runVars, storeVars, embedding_config, tasks,
                batch_results, completed, reducer_log, embedded_chunks,
                artifact_at_start, openaiVars, laterVars>>

\* The artifacts an earlier run can have left: what save dumps after a fit
\* that succeeded.
EarlierArtifacts ==
    {payload(fit(PCAReducer("PCAReducer", d), X, FALSE).self) :
        <<d, X>> \in {dx \in TargetDims \X EmbeddingShapes :
                        fit(PCAReducer("PCAReducer", dx[1]), dx[2], FALSE).kind = "ok"}}

InitReducer ==
    /\ \E dims \in [ReducerClasses -> TargetDims] :
         reducers = [c \in ReducerClasses |-> PCAReducer(c, dims[c])]
    /\ dry_run \in BOOLEAN
    /\ saving = {}
    /\ reducer_ret = NoReducerCall
    /\ artifact \in {NoArtifact} \cup EarlierArtifacts
    /\ artifact_at_start = artifact
    /\ embedding_config = [use_threading |-> FALSE, max_workers |-> 1,
                           dimension_reduction |-> TRUE]
    /\ tasks = <<>>
    /\ batch_results = <<>>
    /\ completed = <<>>
    /\ reducer_log = <<>>
    /\ embedded_chunks = <<>>
    /\ variant = "src"
    /\ chunks = <<>>
    /\ pc = "idle"
    /\ IdleFaiss
    /\ disk = _save_index(FAISSVectorDB(StoreDimension))
    /\ IdleStore
    /\ IdleOpenAI
    /\ IdleLater

\* A call that touches the object only.
Called(op, c, r) ==
    /\ reducers' = [reducers EXCEPT ![c] = r.self]
    /\ reducer_ret' = ReducerCall(op, c, reducers[c],
                                  IF op = "load" /\ ~is_dry_run_mode(reducers[c], dry_run)
                                  THEN artifact ELSE NoArtifact, r)

Fit ==
    \E c \in ReducerClasses \ saving, X \in EmbeddingShapes :
        /\ Called("fit", c, fit(reducers[c], X, dry_run))
        /\ UNCHANGED <<dry_run, saving, artifact, notReducer>>

Transform ==
    \E c \in ReducerClasses \ saving, X \in EmbeddingShapes :
        /\ Called("transform", c, transform(reducers[c], X, dry_run))
        /\ UNCHANGED <<dry_run, saving, artifact, notReducer>>

TransformOne ==
    \E c \in ReducerClasses \ saving, n_features \in FeatureCounts :
        /\ Called("transform_one", c,
                  transform_one(reducers[c], n_features, dry_run))
        /\ UNCHANGED <<dry_run, saving, artifact, notReducer>>

\* save up to the moment joblib.dump has opened the file for writing: the
\* path then holds a file that is not yet the whole payload.
SaveBegin ==
    \E c \in ReducerClasses \ saving :
        LET r == save(reducers[c], dry_run)
        IN /\ Called("save", c, r)
           /\ IF r.kind = "ok" /\ r.out # <<>>
              THEN /\ saving' = saving \cup {c}
                   /\ artifact' = IF saving = {} THEN Partial ELSE Torn
              ELSE UNCHANGED <<saving, artifact>>
           /\ UNCHANGED <<dry_run, notReducer>>

\* joblib.dump returns: the file holds the payload, unless another dump is
\* still writing to the path or has written into this one.
SaveEnd ==
    \E c \in saving :
        /\ saving' = saving \ {c}
        /\ IF saving # {c} THEN artifact' = Torn
           ELSE IF artifact = Torn
           THEN artifact' \in {payload(reducers[c]), Torn}
           ELSE artifact' = payload(reducers[c])
        /\ UNCHANGED <<reducers, dry_run, reducer_ret, notReducer>>

\* The process is stopped while joblib.dump is writing.
SaveInterrupted ==
    \E c \in saving :
        /\ saving' = saving \ {c}
        /\ reducer_ret' = ReducerCall("save", c, reducers[c], NoArtifact,
                                      Raise(reducers[c], "KeyboardInterrupt"))
        /\ UNCHANGED <<reducers, dry_run, artifact, notReducer>>

Load ==
    \E c \in ReducerClasses \ saving :
        /\ Called("load", c, load(reducers[c], artifact, dry_run))
        /\ UNCHANGED <<dry_run, saving, artifact, notReducer>>

\* PCAReducer.clear, made while no dump is under way: the file is removed
\* and the model dropped.
ClearArtifact ==
    /\ saving = {}
    /\ Called("clear", "PCAReducer", PCAReducer_clear(reducers["PCAReducer"]))
    /\ artifact' = NoArtifact
    /\ UNCHANGED <<dry_run, saving, notReducer>>

NextReducer ==
    \/ Fit \/ Transform \/ TransformOne \/ SaveBegin \/ SaveEnd
    \/ SaveInterrupted \/ Load \/ ClearArtifact

SpecReducer == InitReducer /\ [][NextReducer]_vars

\* The reducer object the last call was made on, as the call left it.
Callee == reducers[reducer_ret.class]

\* The last call was made with the mocks of dry run mode in place.
Mocked == is_dry_run_mode(reducer_ret.before, dry_run)

\* C12: a load that finds an artifact whose stored target dimension differs
\* from the configured one fails, and the reducer holds no loaded model
\* afterwards.
C12_LoadRejectsOtherTargetDim ==
    (/\ reducer_ret.op = "load" /\ ~Mocked
     /\ reducer_ret.seen.state = "complete"
     /\ reducer_ret.seen.meta.target_dim # reducer_ret.before.target_dim) =>
        /\ reducer_ret.kind = "raise"
        /\ Callee = reducer_ret.before

\* Unfitted: no fit and no load has given the reducer a model.
Unfitted(self) == self.model = {} /\ ~self.is_fitted

NeedsModel == {"transform", "transform_one", "save"}

\* C18, as stated: transform, transform_one and save called on an Unfitted
\* reducer raise and leave it Unfitted, in every reachable state.
C18_UnfittedCallsRaise ==
    (reducer_ret.op \in NeedsModel /\ Unfitted(reducer_ret.before)) =>
        /\ reducer_ret.kind = "raise"
        /\ Unfitted(Callee)

\* C18, amended: outside dry run mode, transform, transform_one and save
\* called on an Unfitted reducer raise, write nothing and leave the reducer
\* Unfitted; a call of them that succeeds was made on a reducer with a model.
C18_UnfittedCallsRaiseUnlessMocked ==
    (reducer_ret.op \in NeedsModel /\ ~Mocked) =>
        /\ Unfitted(reducer_ret.before) =>
              /\ reducer_ret.kind = "raise"
              /\ reducer_ret.error = "RuntimeError"
              /\ Unfitted(Callee)
              /\ reducer_ret.class \notin saving
        /\ reducer_ret.kind = "ok" => reducer_ret.before.model # {}

\* Each of the three calls has been made on an Unfitted reducer outside dry
\* run mode; here, a transform.
C18_Witness ==
    /\ reducer_ret.op = "transform" /\ ~Mocked
    /\ Unfitted(reducer_ret.before)
    /\ reducer_ret.kind = "raise"

\* The reducer holds a model that a fit with its target_dim produces.
FittedBy(self) ==
    \E X \in EmbeddingShapes :
        LET r == fit(PCAReducer(self.class, self.target_dim), X, FALSE)
        IN r.kind = "ok" /\ r.self.model = self.model

\* C19: after a fit that succeeded, every vector transform or transform_one
\* returns has exactly target_dim components.
C19_OutputHasTargetDim ==
    (/\ reducer_ret.op \in {"transform", "transform_one"}
     /\ reducer_ret.kind = "ok"
     /\ ~Mocked /\ FittedBy(reducer_ret.before)) =>
        \A k \in 1..Len(reducer_ret.out) :
            reducer_ret.out[k] = reducer_ret.before.target_dim

\* C20: no load ever finds a partially written file at the artifact path.
C20_ArtifactWritesAtomic ==
    (reducer_ret.op = "load" /\ ~Mocked) =>
        reducer_ret.seen.state \in {"missing", "complete"}

(***************************************************************************)
(* SpecOpenAI: the embedding requests made on one OpenAIEmbedder in a run. *)
(***************************************************************************)
notOpenAI == <<faissVars, runVars, storeVars, embedVars, reducerVars, laterVars>>

InitOpenAI ==
    /\ cache = {}
    /\ embedded_texts = {}
    /\ request = NoRequest
    /\ api_calls = <<>>
    /\ variant = "src"
    /\ chunks = <<>>
    /\ pc = "idle"
    /\ IdleFaiss
    /\ disk = _save_index(FAISSVectorDB(StoreDimension))
    /\ IdleStore
    /\ IdleEmbed
    /\ IdleReducer
    /\ IdleLater

\* create_embedding(text) is called (by _embed_chunk_raw or a client).
CreateEmbedding ==
    /\ request.status # "calling"
    /\ \E text \in OpenAITexts :
         request' = create_embedding("create_embedding", text)
    /\ api_calls' = <<>>
    /\ embedded_texts' = IF request'.status = "returned"
                   THEN embedded_texts \cup {request'.text} ELSE embedded_texts
    /\ UNCHANGED <<cache, notOpenAI>>

\* _embed_chunks_raw reaches a text of its batch.
EmbedChunksRaw ==
    /\ request.status # "calling"
    /\ \E text \in OpenAITexts :
         request' = OpenAI_embed_chunks_raw(text)
    /\ api_calls' = <<>>
    /\ embedded_texts' = IF request'.status = "returned"
                   THEN embedded_texts \cup {request'.text} ELSE embedded_texts
    /\ UNCHANGED <<cache, notOpenAI>>

\* The request after an API call ended and its retry loop decided.
AfterCall(decision, outcome) ==
    [request EXCEPT
        !.status = IF decision = "return" THEN "returned"
                   ELSE IF decision = "raise" THEN "raised" ELSE "calling",
        !.error = IF decision = "raise" THEN outcome ELSE "none",
        !.attempt = IF decision = "retry" THEN @ + 1 ELSE @]

\* A call of _embeddings ends; the vector is returned without being cached.
EmbeddingsCall ==
    /\ request.status = "calling" /\ request.via = "_embeddings"
    /\ \E outcome \in ApiOutcomes :
         /\ api_calls' = Append(api_calls, outcome)
         /\ request' = AfterCall(_embeddings(request.attempt, outcome), outcome)
    /\ embedded_texts' = IF request'.status = "returned"
                   THEN embedded_texts \cup {request.text} ELSE embedded_texts
    /\ UNCHANGED <<cache, notOpenAI>>

\* A call of create_embeddings_batch ends; create_embedding pools the
\* vectors of the pieces, caches the result under the text and returns it.
BatchCall ==
    /\ request.status = "calling" /\ request.via = "_retry_with_backoff"
    /\ \E outcome \in ApiOutcomes :
         /\ api_calls' = Append(api_calls, outcome)
         /\ request' = AfterCall(_retry_with_backoff(request.attempt, outcome),
                                 outcome)
    /\ IF request'.status = "returned"
       THEN /\ embedded_texts' = embedded_texts \cup {request.text}
            /\ cache' = cache \cup {request.text}
       ELSE UNCHANGED <<embedded_texts, cache>>
    /\ UNCHANGED notOpenAI

NextOpenAI == CreateEmbedding \/ EmbedChunksRaw \/ EmbeddingsCall \/ BatchCall

SpecOpenAI == InitOpenAI /\ [][NextOpenAI]_vars

\* C14: a repeat request for a text that was already embedded in the run is
\* answered from the cache and makes no API call, whatever the length of
\* the text and whichever path the request takes.
C14_RepeatAnsweredFromCache ==
    request.repeat => (request.via = "cache" /\ api_calls = <<>>)

\* The failures the retry policy calls transient: rate limit, 5xx, network.
Transient == {"RateLimitError", "InternalServerError", "APIConnectionError"}

\* The outcome of the last API call of the request.
LastCall == api_calls[Len(api_calls)]

\* C15: a failed API call is retried if and only if its failure is
\* transient (as long as attempts are left), and a permanent error is
\* raised after the first attempt.
C15_RetriedIffTransient ==
    (api_calls # <<>> /\ LastCall # "ok") =>
        /\ Len(api_calls) < max_retries =>
              (request.status = "calling" <=> LastCall \in Transient)
        /\ LastCall \notin Transient =>
              (request.status = "raised" /\ Len(api_calls) = 1)

\* The request was rate limited on every attempt it was allowed.
Exhausted ==
    /\ Len(api_calls) = max_retries
    /\ \A k \in 1..Len(api_calls) : api_calls[k] = "RateLimitError"

\* C16: a rate-limited request is attempted at most max_retries times; when
\* they are used up no further attempt is made and the failure is escalated
\* to the caller as ProviderUnavailable.
C16_ExhaustionIsProviderUnavailable ==
    /\ Len(api_calls) <= max_retries
    /\ request.attempt < max_retries
    /\ Exhausted => (request.status = "raised"
                     /\ request.error = "ProviderUnavailable")

(***************************************************************************)
(* The parser: src/src/parser/builder.py.  A text is a sequence of         *)
(* characters; a character is a number, and 0 is the one whitespace        *)
(* character of the model.  An Optional[int] is a set: {} is None.         *)
(***************************************************************************)
MaxTextLen == 3      \* longest text of the small documents

Whitespace == 0

max(a, b) == IF a > b THEN a ELSE b

\* Python's text[start:end], negative positions counted from the end.
slice(text, start, end) ==
    LET n == Len(text)
        lo == IF start < 0 THEN max(start + n, 0) ELSE min(start, n)
        hi == IF end < 0 THEN max(end + n, 0) ELSE min(end, n)
    IN SubSeq(text, lo + 1, hi)

\* str.strip(): leading and trailing whitespace removed.
RECURSIVE lstrip(_)
lstrip(text) ==
    IF text # <<>> /\ Head(text) = Whitespace THEN lstrip(Tail(text)) ELSE text

RECURSIVE rstrip(_)
rstrip(text) ==
    IF text # <<>> /\ text[Len(text)] = Whitespace
    THEN rstrip(SubSeq(text, 1, Len(text) - 1)) ELSE text

strip(text) == rstrip(lstrip(text))

\* The while loop of _split_by_character, from the window starting at start.
RECURSIVE character_windows(_, _, _, _)
character_windows(text, size, chunk_overlap, start) ==
    IF ~(start < Len(text)) THEN <<>>
    ELSE LET end == min(start + size, Len(text))
             chunk == slice(text, start, end)
         IN IF end >= Len(text) THEN <<chunk>>
            ELSE <<chunk>> \o
                 character_windows(text, size, chunk_overlap,
                                   max(start + size - chunk_overlap, start + 1))

_split_by_character(text, size_option, chunk_overlap) ==
    IF size_option = {} THEN <<text>>
    ELSE LET size == CHOOSE n \in size_option : TRUE
         IN IF Len(text) <= size THEN <<text>>
            ELSE character_windows(text, size, chunk_overlap, 0)

\* _split_text(text, step): the split of the step's strategy, then the
\* post-processing.  The model draws steps of strategy "character" only;
\* the final else branch of the code answers every other strategy here.
_split_text(text, step) ==
    LET splits == IF step.strategy = "character"
                  THEN _split_by_character(text, step.chunk_size, step.chunk_overlap)
                  ELSE <<text>>
        trimmed == [k \in 1..Len(splits) |->
                       IF step.trim_whitespace THEN strip(splits[k]) ELSE splits[k]]
    IN SelectSeq(trimmed, LAMBDA split : split # <<>> \/ step.keep_empty)

\* _process_step(step, chunks): the splits of every chunk, in order.
RECURSIVE _process_step(_, _)
_process_step(step, cs) ==
    IF cs = <<>> THEN <<>>
    ELSE _split_text(Head(cs), step) \o _process_step(step, Tail(cs))

\* _process(process, document): the steps applied in turn, starting from
\* one chunk that holds the whole document.
RECURSIVE apply_steps(_, _)
apply_steps(steps, cs) ==
    IF steps = <<>> THEN cs
    ELSE apply_steps(Tail(steps), _process_step(Head(steps), cs))

_process(proc, doc) == apply_steps(proc.steps, <<doc.text>>)

\* process(document): the chunks of every process, one process after another.
RECURSIVE process(_, _)
process(processes, doc) ==
    IF processes = <<>> THEN <<>>
    ELSE _process(Head(processes), doc) \o process(Tail(processes), doc)

(***************************************************************************)
(* SpecParser: process is called once on one document.                     *)
(***************************************************************************)
notParser == <<earlierVars, mainVars, agentVars, tokenVars>>

SmallTexts == UNION {[1..n -> {Whitespace, 1}] : n \in 0..MaxTextLen}

ChunkSizes == {{}, {-1}, {0}, {1}, {2}, {3}}

Steps(sizes, overlaps) ==
    [strategy : {"character"}, chunk_size : sizes, chunk_overlap : overlaps,
     keep_empty : BOOLEAN, trim_whitespace : BOOLEAN]

\* Scenario S2 of the specification: one 500-character document, windows of
\* 200 characters overlapping by 50.  Character k of the document is k.
S2 == [length |-> 500, chunk_size |-> 200, chunk_overlap |-> 50]

S2Text == [k \in 1..S2.length |-> k]

InitParser ==
    /\ \E step \in Steps(ChunkSizes, {0, 1}) \cup Steps({{S2.chunk_size}}, {0, S2.chunk_overlap}) :
         /\ parser_config = [processes |-> << [name |-> "p", steps |-> <<step>>] >>]
         /\ \/ /\ step.chunk_size # {S2.chunk_size}
               /\ \E text \in SmallTexts : document = [text |-> text]
            \/ /\ step.chunk_size = {S2.chunk_size}
               /\ document = [text |-> S2Text]
    /\ document_chunks = <<>>
    /\ parser_pc = "ready"
    /\ IdleEarlier
    /\ IdleMain
    /\ IdleAgent
    /\ IdleTokens

\* TextSplitterBuilder(config).process(document)
Process ==
    /\ parser_pc = "ready"
    /\ document_chunks' = process(parser_config.processes, document)
    /\ parser_pc' = "done"
    /\ UNCHANGED <<parser_config, document>>
    /\ UNCHANGED notParser

NextParser == Process

SpecParser == InitParser /\ [][NextParser]_vars

\* The one step of the one process of the configuration.
TheStep == parser_config.processes[1].steps[1]

RECURSIVE Concatenated(_)
Concatenated(texts) ==
    IF texts = <<>> THEN <<>> ELSE Head(texts) \o Concatenated(Tail(texts))

\* C21: for every document and any chunk_size, the chunks of a single process
\* with a single character step with chunk_overlap = 0, keep_empty = true and
\* trim_whitespace = false, concatenated in output order, equal the
\* document's text.
C21_ChunksConcatenateToText ==
    ( /\ parser_pc = "done"
      /\ TheStep.chunk_overlap = 0 /\ TheStep.keep_empty /\ ~TheStep.trim_whitespace )
    => Concatenated(document_chunks) = document.text

\* C22: a character step with chunk_size = 200 and chunk_overlap = 50 on one
\* 500-character document yields exactly 4 chunks, each window starting
\* chunk_size - chunk_overlap characters after the one before.
C22_FourWindows ==
    ( /\ parser_pc = "done"
      /\ document.text = S2Text
      /\ TheStep.chunk_size = {S2.chunk_size}
      /\ TheStep.chunk_overlap = S2.chunk_overlap )
    => /\ Len(document_chunks) = 4
       /\ \A k \in 1..Len(document_chunks) :
            Head(document_chunks[k]) = 1 + (k - 1) * (S2.chunk_size - S2.chunk_overlap)

(***************************************************************************)
(* The pipeline: src/src/main.py.  A local variable of main is a set: {}   *)
(* while the name is unbound, {value} once an assignment has bound it.     *)
(***************************************************************************)
MainConfigs ==
    {c \in [parser : BOOLEAN, embedding : BOOLEAN, dimension_reduction : BOOLEAN,
            text_store : BOOLEAN, vector : BOOLEAN, eval : BOOLEAN,
            dry_run : BOOLEAN] :
        c.dimension_reduction => c.embedding}

\* The dataset path: missing, or a directory holding the files DataLoader
\* accepts (none, one, two).
Datasets ==
    {[exists |-> FALSE, texts |-> <<>>]}
    \cup {[exists |-> TRUE, texts |-> t] : t \in {<<>>, << <<1>> >>, << <<1>>, <<1, 1>> >>}}

\* The parser section of the model's configurations: one process of one
\* character step that cuts chunks of one character.
MainParserConfig ==
    [processes |-> << [name |-> "p",
                       steps |-> << [strategy |-> "character", chunk_size |-> {1},
                                     chunk_overlap |-> 0, keep_empty |-> FALSE,
                                     trim_whitespace |-> TRUE] >>] >>]

\* ParserRunner.run(documents): the chunks of every document, in order.
RECURSIVE ParserRunner_run(_, _)
ParserRunner_run(config, docs) ==
    IF docs = <<>> THEN <<>>
    ELSE process(config.processes, Head(docs)) \o ParserRunner_run(config, Tail(docs))

\* The DocumentChunk list of the texts a parser run returned.
AsChunks(texts) == [k \in 1..Len(texts) |-> [id |-> k, text |-> texts[k]]]

\* The embedding stage on a chunk list: one provider request per chunk (no
\* dry_response guards it), then the reducer, whose fit, transform and save
\* are mocked in dry run mode.
EmbeddingRunner_run(cfg, cs) ==
    LET requests == [k \in 1..Len(cs) |-> "embedding_api"]
        r == embed_chunks(DocumentChunkOf("src"), cs,
                          cfg.dimension_reduction /\ ~cfg.dry_run, 0)
    IN [kind |-> r.kind,
        items |-> r.items,
        effects |-> requests \o [k \in 1..Len(r.log) |-> r.log[k].op]]

\* StorageRunner().run(chunks): a text-store write per chunk, then an upload
\* per chunk to the vector store, which refuses a chunk without embedding.
StorageRunner_run(cfg, cs) ==
    LET text_writes == IF cfg.text_store
                       THEN [k \in 1..Len(cs) |-> "text_write"] ELSE <<>>
        uploaded == SelectSeq(cs, LAMBDA c : c.embedding # NoEmbedding)
        vector_writes == IF cfg.vector
                         THEN [k \in 1..Len(uploaded) |-> "vector_write"] ELSE <<>>
    IN text_writes \o vector_writes

(***************************************************************************)
(* SpecMain: one run of main, stage by stage.                              *)
(***************************************************************************)
notMain == <<earlierVars, parserVars, agentVars, tokenVars>>

InitMain ==
    /\ run_config \in MainConfigs
    /\ dataset \in Datasets
    /\ main_locals = [documents |-> {}, document_chunks |-> {}, embedded_chunks |-> {}]
    /\ main_pc = "load"
    /\ stages = <<>>
    /\ effects = <<>>
    /\ exit_code = {}
    /\ IdleEarlier
    /\ IdleParser
    /\ IdleAgent
    /\ IdleTokens

\* An exception reaches the except clauses of main: it returns 1.
MainFails ==
    /\ main_pc' = "done"
    /\ exit_code' = {1}

\* documents = DataLoader(config.dataset).load()
MainLoad ==
    /\ main_pc = "load"
    /\ IF ~dataset.exists
       THEN /\ MainFails
            /\ UNCHANGED <<main_locals, stages>>
       ELSE /\ main_locals' = [main_locals EXCEPT
                                 !.documents = {[k \in 1..Len(dataset.texts) |->
                                                   [text |-> dataset.texts[k]]]}]
            /\ stages' = Append(stages, "Load")
            /\ main_pc' = "parse"
            /\ UNCHANGED exit_code
    /\ UNCHANGED <<run_config, dataset, effects>>
    /\ UNCHANGED notMain

\* if config.parser: document_chunks = await parser_runner.run(documents)
MainParse ==
    /\ main_pc = "parse"
    /\ IF run_config.parser
       THEN /\ \E docs \in main_locals.documents :
                 main_locals' = [main_locals EXCEPT
                     !.document_chunks =
                         {AsChunks(ParserRunner_run(MainParserConfig, docs))}]
            /\ stages' = Append(stages, "Parse")
       ELSE UNCHANGED <<main_locals, stages>>
    /\ main_pc' = "embed"
    /\ UNCHANGED <<run_config, dataset, effects, exit_code>>
    /\ UNCHANGED notMain

\* if config.embedding: embedded_chunks = await embedding_runner.run(document_chunks)
MainEmbed ==
    /\ main_pc = "embed"
    /\ IF ~run_config.embedding
       THEN /\ main_pc' = "store"
            /\ UNCHANGED <<main_locals, stages, effects, exit_code>>
       ELSE IF main_locals.document_chunks = {}
       THEN \* document_chunks is not bound
            /\ MainFails
            /\ UNCHANGED <<main_locals, stages, effects>>
       ELSE \E cs \in main_locals.document_chunks :
              LET r == EmbeddingRunner_run(run_config, cs)
              IN /\ stages' = Append(stages, "Embed")
                 /\ effects' = effects \o r.effects
                 /\ IF r.kind = "raise"
                    THEN /\ MainFails
                         /\ UNCHANGED main_locals
                    ELSE /\ main_locals' = [main_locals EXCEPT
                                              !.embedded_chunks = {r.items}]
                         /\ main_pc' = "store"
                         /\ UNCHANGED exit_code
    /\ UNCHANGED <<run_config, dataset>>
    /\ UNCHANGED notMain

\* if config.storage: the text_store branch runs StorageRunner, the vector
\* branch is `pass`.
MainStore ==
    /\ main_pc = "store"
    /\ IF ~run_config.text_store
       THEN /\ main_pc' = "evaluate"
            /\ UNCHANGED <<stages, effects, exit_code>>
       ELSE IF main_locals.embedded_chunks = {}
       THEN \* embedded_chunks is not bound
            /\ MainFails
            /\ UNCHANGED <<stages, effects>>
       ELSE \E cs \in main_locals.embedded_chunks :
              /\ stages' = Append(stages, "Store")
              /\ effects' = effects \o StorageRunner_run(run_config, cs)
              /\ main_pc' = "evaluate"
              /\ UNCHANGED exit_code
    /\ UNCHANGED <<run_config, dataset, main_locals>>
    /\ UNCHANGED notMain

\* if config.eval: pass; then return 0
MainEvaluate ==
    /\ main_pc = "evaluate"
    /\ main_pc' = "done"
    /\ exit_code' = {0}
    /\ UNCHANGED <<run_config, dataset, main_locals, stages, effects>>
    /\ UNCHANGED notMain

NextMain == MainLoad \/ MainParse \/ MainEmbed \/ MainStore \/ MainEvaluate

SpecMain == InitMain /\ [][NextMain]_vars

\* The stages of the sections a configuration has, in the order of the
\* pipeline.
StagesOf(c) ==
    <<"Load">>
    \o (IF c.parser THEN <<"Parse">> ELSE <<>>)
    \o (IF c.embedding THEN <<"Embed">> ELSE <<>>)
    \o (IF c.text_store \/ c.vector THEN <<"Store">> ELSE <<>>)
    \o (IF c.eval THEN <<"Evaluate">> ELSE <<>>)

\* C23: a run executes its stages in the order Load, Parse, Embed, Store,
\* Evaluate; a stage whose section is absent is skipped without making the
\* run fail, and a stage whose section is present is never skipped.  (Stated
\* for runs with a dataset that holds a document and without a reducer, so
\* that no stage fails for a reason of its own.)
C23_StagesOfPresentSections ==
    ( /\ main_pc = "done"
      /\ dataset.exists /\ dataset.texts # <<>>
      /\ ~run_config.dimension_reduction )
    => /\ exit_code = {0}
       /\ stages = StagesOf(run_config)

\* C24: when the dataset directory exists but holds no file of an allowed
\* type, the run completes successfully with zero chunks, without fitting a
\* reducer and without any store write.
C24_EmptyDatasetCompletes ==
    ( /\ main_pc = "done"
      /\ dataset.exists /\ dataset.texts = <<>>
      /\ run_config.parser )
    => /\ exit_code = {0}
       /\ main_locals.document_chunks = {<<>>}
       /\ \A k \in 1..Len(effects) :
            effects[k] \notin {"fit", "text_write", "vector_write"}

\* C25: in dry run mode a run makes no embedding API request, no vector-store
\* write and no text-store write.
C25_DryRunMakesNoExternalCall ==
    run_config.dry_run =>
        \A k \in 1..Len(effects) :
            effects[k] \notin {"embedding_api", "text_write", "vector_write"}

(***************************************************************************)
(* The agent test: EvaluationRunner._agent_test of                         *)
(* src/src/runner/evaluation_runner.py.  The agent library (agents.Runner, *)
(* the MCP servers) is outside the repository: what a run of it does is a  *)
(* choice among its outcomes.                                              *)
(***************************************************************************)
\* The AgentTest configurations: timeout is Optional[int] ({} is None).
AgentTests ==
    [mcp : {"stdio", "sse", "other"}, timeout : {{}, {0}, {2}}, max_turns : {1, 2}]

\* What the library may do: the MCP server fails to start, the agent raises,
\* or the agent finishes after some seconds and some turns.
AgentOutcomes ==
    {[kind |-> k, seconds |-> 0, turns |-> 0] : k \in {"no_server", "raises"}}
    \cup [kind : {"returns"}, seconds : {1, 3, 61}, turns : 1..3]

\* timeout=test.timeout or 60
wait_for_timeout(test) ==
    IF test.timeout = {} \/ test.timeout = {0} THEN 60
    ELSE CHOOSE t \in test.timeout : TRUE

\* _agent_test(test): the status of the dict it returns.
_agent_test(test, outcome) ==
    IF test.mcp \notin {"stdio", "sse"}
    THEN [status |-> "error"]          \* ValueError: unknown MCP config type
    ELSE IF outcome.kind \in {"no_server", "raises"}
    THEN [status |-> "error"]          \* except Exception
    ELSE IF outcome.seconds > wait_for_timeout(test)
    THEN [status |-> "timeout"]        \* except asyncio.TimeoutError
    ELSE [status |-> "completed"]

(***************************************************************************)
(* SpecAgent: _agent_test is called once on one test.                      *)
(***************************************************************************)
notAgent == <<earlierVars, parserVars, mainVars, tokenVars>>

InitAgent ==
    /\ agent_test \in AgentTests
    /\ agent_run = NoAgentRun
    /\ test_result = {}
    /\ agent_pc = "ready"
    /\ IdleEarlier
    /\ IdleParser
    /\ IdleMain
    /\ IdleTokens

\* await self._agent_test(test)
RunAgentTest ==
    /\ agent_pc = "ready"
    /\ \E outcome \in AgentOutcomes :
         /\ agent_run' = IF agent_test.mcp \in {"stdio", "sse"} THEN outcome
                         ELSE NoAgentRun
         /\ test_result' = {_agent_test(agent_test, outcome)}
    /\ agent_pc' = "done"
    /\ UNCHANGED agent_test
    /\ UNCHANGED notAgent

NextAgent == RunAgentTest

SpecAgent == InitAgent /\ [][NextAgent]_vars

\* C28: every agent test ends with exactly one of the statuses completed,
\* timeout and error, and with completed only if the agent finished within
\* both its configured timeout and its configured max_turns.
C28_CompletedWithinTimeoutAndMaxTurns ==
    agent_pc = "done" =>
        /\ Cardinality(test_result) = 1
        /\ \A r \in test_result :
             /\ r.status \in {"completed", "timeout", "error"}
             /\ r.status = "completed" =>
                  /\ agent_run.kind = "returns"
                  /\ agent_run.seconds <= wait_for_timeout(agent_test)
                  /\ agent_run.turns <= agent_test.max_turns

(***************************************************************************)
(* Token chunking: OpenAIEmbedder._chunk_by_tokens of                      *)
(* src/src/infra/embedding/openai_embedder.py.  A text is the number of    *)
(* token ids its encoding has; a window is the pair <<start, end>> of      *)
(* ids[start:end].                                                         *)
(***************************************************************************)
MaxIds == 4           \* most token ids of a text
MaxChunkTokens == 3   \* largest max_tokens
MaxOverlap == 3       \* largest overlap

notTokens == <<earlierVars, parserVars, mainVars, agentVars>>

InitTokens ==
    /\ token_call \in [ids : 0..MaxIds, max_tokens : 1..MaxChunkTokens,
                       overlap : 0..MaxOverlap]
    /\ chunk_start = 0
    /\ windows = {}
    /\ chunks_parity = 0
    /\ token_pc = "call"
    /\ IdleEarlier
    /\ IdleParser
    /\ IdleMain
    /\ IdleAgent

\* The call up to the loop: a text of at most max_tokens ids is returned whole.
ChunkByTokens ==
    /\ token_pc = "call"
    /\ IF token_call.ids <= token_call.max_tokens
       THEN /\ windows' = {<<0, token_call.ids>>}
            /\ chunks_parity' = 1
            /\ token_pc' = "returned"
       ELSE /\ windows' = {}
            /\ chunks_parity' = 0
            /\ token_pc' = "loop"
    /\ chunk_start' = 0
    /\ UNCHANGED token_call
    /\ UNCHANGED notTokens

\* One test of `while start < len(ids)` and, when it is true, one pass of the
\* loop body.
ChunkLoop ==
    /\ token_pc = "loop"
    /\ IF ~(chunk_start < token_call.ids)
       THEN /\ token_pc' = "returned"
            /\ UNCHANGED <<chunk_start, windows, chunks_parity>>
       ELSE LET end == min(chunk_start + token_call.max_tokens, token_call.ids)
            IN /\ windows' = windows \cup {<<chunk_start, end>>}
               /\ chunks_parity' = (chunks_parity + 1) % 2
               /\ IF end = token_call.ids
                  THEN /\ token_pc' = "returned"
                       /\ UNCHANGED chunk_start
                  ELSE /\ chunk_start' = max(0, end - token_call.overlap)
                       /\ UNCHANGED token_pc
    /\ UNCHANGED token_call
    /\ UNCHANGED notTokens

NextTokens == ChunkByTokens \/ ChunkLoop

SpecTokens == InitTokens /\ [][NextTokens]_vars

\* The thread that runs the call keeps running it.
SpecTokensFair == SpecTokens /\ WF_vars(NextTokens)

\* C30: _chunk_by_tokens terminates for every text and every max_tokens >= 1
\* and overlap >= 0.
C30_ChunkByTokensTerminates == <>(token_pc = "returned")
====
